---- MODULE Spec2Model ----
(***************************************************************************)
(* Parallel download over UDP: the server's receive-and-dispatch loop      *)
(* (src/server.py) and the client's four-segment download (src/client.py). *)
(*                                                                         *)
(* Text is a sequence of atoms: " " is the space character, any other atom *)
(* stands for a run of non-space characters.  A byte string is a sequence  *)
(* of numbers.  An optional value is <<>> (None) or <<v>>.                 *)
(***************************************************************************)
EXTENDS Integers, Sequences, FiniteSets, TLC

\* ------------------------------------------------------------------ bounds
\* Largest file size drawn in Init.
MaxFileSize == 7
\* Datagrams the network may lose, damage or delay during one download.
MaxFaults == 5
\* Workers whose datagrams the network may lose, damage or delay.
MaxFaulty == 1
\* File handles the server may have open at once in the server-only runs.
MaxHandles == 2
\* Downloads of the same file the client makes one after the other.
MaxDownloads == 3

\* --------------------------------------------------------------- constants
\* client.py:15 sets 16384; the model transfers in chunks of 2 bytes so that
\* a segment of 3 or 4 bytes takes a full chunk and a shorter last one.
CHUNK_SIZE == 2
\* server.py:10
SEND_BUF == 65536
\* client.py:188, the default of `attempts`
ATTEMPTS == 5
\* client.py:198, the "32s" of the frame: the length of an MD5 hex digest
CHECKSUM_LEN == 32
\* client.py:87-90, the hard-coded number of segments
NSEG == 4

PASSWORD == <<"admin@1234">>
FilePath == <<"server_data", "/", "a", ".", "bin">>

None == <<>>
Some(v) == <<v>>

Min(a, b) == IF a <= b THEN a ELSE b
Abs(a) == IF a < 0 THEN 0 - a ELSE a

RECURSIVE SumSeq(_)
SumSeq(s) == IF s = <<>> THEN 0 ELSE Head(s) + SumSeq(Tail(s))

\* ------------------------------------------------------------ text <-> int
\* str(n) and int(s) for the numbers that occur on the wire.
Digits == <<"0", "1", "2", "3", "4", "5", "6", "7", "8", "9", "10", "11", "12">>

IntToStr(n) == IF n < 0 THEN <<"-" , Digits[(0 - n) + 1]>> ELSE <<Digits[n + 1]>>

IsNat(s) == Len(s) = 1 /\ \E k \in 1..Len(Digits) : Digits[k] = s[1]
IsInt(s) == IsNat(s) \/ (Len(s) = 2 /\ s[1] = "-" /\ IsNat(Tail(s)))
NatOf(s) == (CHOOSE k \in 1..Len(Digits) : Digits[k] = s[1]) - 1
\* int(s); callers test IsInt first (int raises ValueError otherwise)
ParseInt(s) == IF IsNat(s) THEN NatOf(s) ELSE 0 - NatOf(Tail(s))

\* str.split(' '): cut at every space; "" gives [""]
RECURSIVE SplitFrom(_, _, _)
SplitFrom(s, cur, acc) ==
    IF s = <<>> THEN Append(acc, cur)
    ELSE IF Head(s) = " " THEN SplitFrom(Tail(s), <<>>, Append(acc, cur))
    ELSE SplitFrom(Tail(s), Append(cur, Head(s)), acc)

Split(s) == SplitFrom(s, <<>>, <<>>)

\* -------------------------------------------------------------- the file
\* The served file: byte k of a file of n bytes is k (0123... of the spec's
\* scenario), so a misplaced or missing byte shows.
FileOf(n) == [k \in 1..n |-> k]

\* file.seek(offset); file.read(n): at most n bytes from offset, n = -1 for
\* the rest of the file
FileRead(content, offset, n) ==
    LET last == IF n < 0 THEN Len(content) ELSE Min(offset + n, Len(content))
    IN  SubSeq(content, offset + 1, last)

\* ------------------------------------------------------------- variables
VARIABLES
    fileSize,   \* size of the served file (the file_size handed to download)
    srvLoop,    \* Server.run: "init", "running", "exited" (self._run false), "crashed" (exception left run)
    srvRun,     \* Server._run
    clients,    \* Server._clients: address -> [fd |-> handle]
    openFiles,  \* file handles opened by the server and not closed
    lastMsg,    \* server-only runs: the datagram recvfrom returned last, None before
    lastReply,  \* server-only runs: what the handler of lastMsg passed to sendto, None if nothing
    dpc,        \* Client.download: "call", "joining" (threads started), "returned"
    sizes,      \* download: sizes, index -> length of the segment
    offsets,    \* download: offsets, index -> first byte of the segment
    errors,     \* download: errors, shared failed flags
    totals,     \* download: totals, shared progress counters
    mpc,        \* _update_progress thread: "idle", "run", "done" (left the loop), "dead" (exception)
    wpc,        \* _download threads: "idle", "start", "loop" (about to call _try_recv), "try" (between
                \*   two turns of the loop of _try_recv), "ended" (returned), "dead" (exception)
    offset,     \* _download: offset, per worker
    total,      \* _download: total, per worker
    finished,   \* _download: finished, per worker
    data,       \* _download: data, what _try_recv returned last, per worker
    attempts,   \* _try_recv: attempts, per worker
    checksum,   \* _try_recv: checksum unpacked last, per worker (None before)
    recvData,   \* _try_recv: data, per worker (None, or the payload unpacked last)
    gets,       \* GETs sent by the current (or last) call of _try_recv, per worker
    spill,      \* the files client_data/part_i: None (absent) or the bytes written
    merged,     \* the output file: None (absent) or its bytes
    result,     \* what download returned: None (not yet), <<TRUE>>, <<FALSE>>
    peer,       \* what answers at SERVER_ADDR: "bare" (server.py, which sends the bytes read) or
                \*   "framed" (a server that sends them in the frame _try_recv unpacks)
    faults,     \* datagrams lost, damaged or delayed by the network so far
    faulty,     \* the workers whose datagrams they were
    cleanup,    \* _download: which of client.py:182-184 the worker has executed, per worker
    dir,        \* client_data: the files other than the spill files, name -> bytes
    new_name,   \* download: new_name, None or the name asked for
    made,       \* the paths download has opened for its merged files, in order
    lock,       \* download: lock, None (free) or the thread that holds it
    progresses, \* _update_progress: progresses
    unguarded   \* the accesses to totals and errors made by a thread not holding lock

srvVars == <<srvLoop, srvRun, clients, openFiles>>
obsVars == <<lastMsg, lastReply>>
dlVars == <<dpc, sizes, offsets, merged, result>>
sharedVars == <<errors, totals>>
workerVars == <<wpc, offset, total, finished, data, attempts, checksum, recvData, gets, spill>>
outVars == <<dir, new_name, made>>
lockVars == <<lock, progresses, unguarded>>
clientVars == <<dpc, sizes, offsets, merged, result, errors, totals, mpc,
                wpc, offset, total, finished, data, attempts, checksum, recvData, gets,
                spill, peer, faults, faulty, cleanup, dir, new_name, made,
                lock, progresses, unguarded>>
vars == <<fileSize, srvLoop, srvRun, clients, openFiles, lastMsg, lastReply,
          dpc, sizes, offsets, errors, totals, mpc,
          wpc, offset, total, finished, data, attempts, checksum, recvData, gets, spill,
          merged, result, peer, faults, faulty, cleanup, dir, new_name, made,
          lock, progresses, unguarded>>

\* ------------------------------------------------------------ the server
\* os.listdir / os.path.getsize over the data folder (server.py:47-50),
\* serialised by json.dumps: the list of (path, size) items
Catalog(size) == <<<<FilePath, size>>>>

\* os.path.exists(filepath), server.py:57
PathExists(path) == path = FilePath

\* open(filepath, "rb"), server.py:58: a handle not in use.  Handles are named
\* by the address they are opened for and a number.
NewFd(open, addr) == CHOOSE h \in {<<addr, k>> : k \in 0..Cardinality(open)} :
                        /\ h \notin open
                        /\ \A k \in 0..(h[2] - 1) : <<addr, k>> \in open

ServerState == [run |-> srvRun, clients |-> clients, open |-> openFiles]

\* The outcome of one handler call: the state it leaves, the datagram it
\* sent (None if none) and whether it raised.
Handled(s, reply) == [run |-> s.run, clients |-> s.clients, open |-> s.open,
                      reply |-> reply, exc |-> FALSE]
Raised(s) == [run |-> s.run, clients |-> s.clients, open |-> s.open,
              reply |-> None, exc |-> TRUE]

\* case "DOWN", server.py:54-62
HandleDown(s, parts, addr) ==
    IF Len(parts) # 2 THEN Raised(s)                      \* _, filepath = msg_parts
    ELSE IF ~PathExists(parts[2]) THEN Handled(s, None)
    ELSE LET fd == NewFd(s.open, addr)
         IN  Handled([s EXCEPT !.open = @ \cup {fd},
                               !.clients = [a \in DOMAIN @ \cup {addr} |->
                                              IF a = addr THEN [fd |-> fd] ELSE @[a]]],
                     None)

\* server.py:69-75: seek to offset, read min(|size|, SEND_BUF) bytes, the
\* rest of the file when that is 0
Contents(content, off, size) ==
    LET chunk_size == Min(Abs(size), SEND_BUF)
    IN  FileRead(content, off, IF chunk_size = 0 THEN -1 ELSE chunk_size)

\* case "GET", server.py:64-78
HandleGet(s, parts, addr, content) ==
    IF Len(parts) # 3 THEN Raised(s)                      \* _, offset, size = msg_parts
    ELSE IF addr \notin DOMAIN s.clients THEN Raised(s)   \* self._clients[addr]: KeyError
    ELSE IF ~IsInt(parts[2]) THEN Raised(s)               \* int(offset): ValueError
    ELSE IF ParseInt(parts[2]) < 0 THEN Raised(s)         \* file.seek of a negative offset
    ELSE IF ~IsInt(parts[3]) THEN Raised(s)               \* int(size): ValueError
    ELSE LET contents == Contents(content, ParseInt(parts[2]), ParseInt(parts[3]))
         IN  Handled(s, Some([to |-> addr, data |-> contents]))

\* case "QUIT", server.py:84-88
HandleQuit(s, addr) ==
    IF addr \in DOMAIN s.clients
    THEN Handled([s EXCEPT !.open = @ \ {s.clients[addr].fd},
                           !.clients = [a \in DOMAIN @ \ {addr} |-> @[a]]],
                 None)
    ELSE Handled(s, None)

\* HandleTerm without the comparison of the password
HandleTermAnyPassword(s, parts) ==
    IF Len(parts) # 2 THEN Raised(s)
    ELSE Handled([s EXCEPT !.run = FALSE], None)

\* case "TERM", server.py:90-94
HandleTerm(s, parts) ==
    IF Len(parts) # 2 THEN Raised(s)                      \* _, password = msg_parts
    ELSE IF parts[2] = PASSWORD THEN Handled([s EXCEPT !.run = FALSE], None)
    ELSE Handled(s, None)

\* Server.handle_client, server.py:43-96.  The per-session "seq" and
\* "ack_list" are written and never read; they are left out.
handle_client(s, msg, addr, content) ==
    LET msg_parts == Split(msg)
        cmd == msg_parts[1]
    IN  IF cmd = <<"LIST">>
          THEN Handled(s, Some([to |-> addr, data |-> Catalog(Len(content))]))
        ELSE IF cmd = <<"DOWN">> THEN HandleDown(s, msg_parts, addr)
        ELSE IF cmd = <<"GET">> THEN HandleGet(s, msg_parts, addr, content)
        ELSE IF cmd = <<"ACK">> THEN Handled(s, None)
        ELSE IF cmd = <<"QUIT">> THEN HandleQuit(s, addr)
        ELSE IF cmd = <<"TERM">> THEN HandleTerm(s, msg_parts)
        ELSE Handled(s, None)

\* One turn of the loop of Server.run (server.py:35-41) on the datagram
\* (msg, addr): the handler runs outside the try, so what it raises leaves
\* run(); otherwise the loop goes on while self._run.
LoopAfter(r) == IF r.exc THEN "crashed" ELSE IF r.run THEN "running" ELSE "exited"

\* The loop of Server.run over the datagrams msgs, all from addr, starting
\* in state s with the loop in state loop: a datagram is handled only while
\* the loop is running.  reply is what the last handler sent.
RECURSIVE RunLoop(_, _, _, _, _)
RunLoop(s, loop, msgs, addr, content) ==
    IF msgs = <<>> \/ loop # "running"
    THEN [run |-> s.run, clients |-> s.clients, open |-> s.open, loop |-> loop, reply |-> None]
    ELSE LET r == handle_client(s, Head(msgs), addr, content)
             rest == RunLoop([run |-> r.run, clients |-> r.clients, open |-> r.open],
                             LoopAfter(r), Tail(msgs), addr, content)
         IN  IF Tail(msgs) = <<>> THEN [rest EXCEPT !.reply = r.reply] ELSE rest

\* The file objects that sessions of before referred to and no session of
\* after does: server.py:59 stores a new session over the old one and never
\* closes the old one's file.
Dropped(before, after) ==
    {before[a].fd : a \in DOMAIN before} \ {after[a].fd : a \in DOMAIN after}

\* The server takes the datagrams msgs from addr off its socket.  A file
\* object nothing refers to any more is closed by the runtime when it
\* finalizes the object: at once (reference counting), or not (a tracing
\* collector that has not run).
Serve(msgs, addr) ==
    LET r == RunLoop(ServerState, srvLoop, msgs, addr, FileOf(fileSize))
        unreachable == Dropped(clients, r.clients) \cap r.open
    IN  /\ srvRun' = r.run
        /\ clients' = r.clients
        /\ \E finalized \in (IF unreachable = {} THEN {FALSE} ELSE BOOLEAN) :
              openFiles' = IF finalized THEN r.open \ unreachable ELSE r.open
        /\ srvLoop' = r.loop

\* The datagrams of the server-only runs: every command, well formed and not.
TestDatagrams ==
    { <<"LIST">>,
      <<"DOWN", " ">> \o FilePath,
      <<"DOWN", " ", "server_data", "/", "none">>,
      <<"DOWN", " ", "my", " ", "file">>,
      <<"GET", " ", "0", " ", "2">>,
      <<"GET", " ", "1", " ", "0">>,
      <<"GET", " ", "5">>,
      <<"ACK", " ", "0">>,
      <<"QUIT">>,
      <<"TERM", " ">> \o PASSWORD,
      <<"TERM", " ", "wrongpassword">>,
      <<"TERM">>,
      <<"HELLO">> }

\* Sender addresses of the server-only runs: a worker's socket and the
\* client's own socket (client.py:69).
TestAddrs == {0, NSEG}

\* Server.run up to the loop, server.py:33-35
ServerRun ==
    /\ srvLoop = "init"
    /\ srvRun' = TRUE
    /\ srvLoop' = "running"
    /\ UNCHANGED <<fileSize, clients, openFiles, lastMsg, lastReply>>
    /\ UNCHANGED clientVars

\* recvfrom returns a datagram and the loop handles it, server.py:37-41
ServerRecv ==
    /\ srvLoop = "running"
    /\ \E msg \in TestDatagrams, addr \in TestAddrs :
         LET r == handle_client(ServerState, msg, addr, FileOf(fileSize))
         IN  /\ Cardinality(r.open) <= MaxHandles
             /\ Serve(<<msg>>, addr)
             /\ lastMsg' = Some([msg |-> msg, addr |-> addr])
             /\ lastReply' = r.reply
    /\ UNCHANGED fileSize
    /\ UNCHANGED clientVars


\* ------------------------------------------------------------ the client
Seg == 0..(NSEG - 1)

\* SizesOf with the remainder dropped: [quotient] * 4
SizesOfNoRemainder(file_size) == [i \in Seg |-> file_size \div NSEG]

\* download, client.py:87-88: divmod, [quotient] * 3 + [quotient + remainder]
SizesOf(file_size) ==
    LET quotient == file_size \div NSEG
        remainder == file_size % NSEG
    IN  [i \in Seg |-> IF i < NSEG - 1 THEN quotient ELSE quotient + remainder]

\* download, client.py:89: [0] + accumulate(sizes[:-1])
RECURSIVE Accumulate(_, _)
Accumulate(f, i) == IF i = 0 THEN 0 ELSE Accumulate(f, i - 1) + f[i - 1]

OffsetsOf(sz) == [i \in Seg |-> Accumulate(sz, i)]

\* hashlib.md5(data).hexdigest().encode(), client.py:199: CHECKSUM_LEN hex
\* digits that depend on every byte and on the length of data.  The digest
\* is a stand-in for MD5: distinct payloads of the model have distinct digests.
Md5Hex(d) ==
    [j \in 1..CHECKSUM_LEN |->
        IF j <= Len(d) THEN (d[j] + 1) % 16 ELSE IF j = Len(d) + 1 THEN 0 ELSE 15]

\* The frame _try_recv expects: checksum, then payload (client.py:198)
Framed(contents) == Md5Hex(contents) \o contents

\* One bit of one byte of a datagram changed in flight
FlipBit(b) == IF b % 2 = 0 THEN b + 1 ELSE b - 1
CorruptAt(packet, pos) == [packet EXCEPT ![pos] = FlipBit(@)]

\* sock.recvfrom(bufsize), client.py:193: a longer datagram is cut to
\* bufsize (POSIX datagram sockets)
RecvFrom(packet, bufsize) == SubSeq(packet, 1, Min(Len(packet), bufsize))

\* _download, client.py:164
ChunkSize(sz, tot) == Min(CHUNK_SIZE, sz - tot)

\* f"GET {offset} {chunk_size}", f"DOWN {filepath}", f"ACK {offset}", "QUIT"
GetMsg(off, chunk_size) == <<"GET", " ">> \o IntToStr(off) \o <<" ">> \o IntToStr(chunk_size)
DownMsg(path) == <<"DOWN", " ">> \o path
AckMsg(off) == <<"ACK", " ">> \o IntToStr(off)
QuitMsg == <<"QUIT">>

\* One turn of the loop of _try_recv (client.py:190-202) after the GET is
\* sent: rcv is None when recvfrom timed out, else the datagram received.
\* pc is "try" (loop again), "ret" (the loop is left, data is returned) or
\* "dead" (struct.error leaves the thread).
TryRecvTurn(att, chk, dat, chunk_size, rcv) ==
    LET again(a, c, d) == [attempts |-> a, checksum |-> c, data |-> d,
                           pc |-> IF a = 0 THEN "ret" ELSE "try"]
    IN  IF rcv = None THEN again(att - 1, chk, dat)              \* except TimeoutError
        ELSE LET packet == RecvFrom(rcv[1], chunk_size + CHECKSUM_LEN)
             IN  IF Len(packet) # CHECKSUM_LEN + chunk_size
                   THEN [attempts |-> att, checksum |-> chk, data |-> dat, pc |-> "dead"]
                 ELSE LET c == SubSeq(packet, 1, CHECKSUM_LEN)
                          d == SubSeq(packet, CHECKSUM_LEN + 1, Len(packet))
                      IN  IF c # Md5Hex(d)
                            THEN again(att - 1, Some(c), Some(d))
                          ELSE [attempts |-> att, checksum |-> Some(c), data |-> Some(d),
                                pc |-> "ret"]

\* _download, client.py:166-185, once _try_recv has returned ret: the
\* failed flag, or the payload appended and the progress; pc is "loop" when
\* the next chunk is asked for, "ended" when the loop is left (QUIT is sent).
AfterTryRecv(ret, off, tot, sz, file) ==
    LET chunk_size == ChunkSize(sz, tot)
        new_total == Min(tot + chunk_size, sz)
    IN  IF ret = None
        THEN [failed |-> TRUE, acked |-> FALSE, spill |-> file, total |-> tot,
              finished |-> FALSE, offset |-> off, pc |-> "ended"]
        ELSE [failed |-> FALSE, acked |-> TRUE, spill |-> Some(file[1] \o ret[1]),
              total |-> new_total, finished |-> (new_total = sz),
              offset |-> IF new_total = sz THEN off ELSE off + chunk_size,
              pc |-> IF new_total = sz THEN "ended" ELSE "loop"]

\* _update_progress, client.py:136: int(total / size * 100), size > 0
Progress(tot, sz) == (tot * 100) \div sz

\* One turn of the loop of _update_progress, client.py:132-148: "done" when
\* it breaks, "dead" when it divides by a size of 0, else "run"
MonitorTurn(errs, tots, szs) ==
    IF \E i \in Seg : errs[i] THEN "done"
    ELSE IF \E i \in Seg : szs[i] = 0 THEN "dead"
    ELSE IF \A i \in Seg : Progress(tots[i], szs[i]) = 100 THEN "done"
    ELSE "run"

\* download, client.py:107-126, once every thread is joined: the result, the
\* output file and the spill files it leaves.
RECURSIVE Concat(_, _)
Concat(files, i) == IF i = NSEG THEN <<>> ELSE files[i][1] \o Concat(files, i + 1)

\* AfterJoin without the test of the failed flags
AfterJoinAlwaysMerge(errs, files) ==
    [result |-> Some(TRUE), merged |-> Some(Concat(files, 0)),
     spill |-> [i \in Seg |-> None]]

AfterJoin(errs, files) ==
    IF \E i \in Seg : errs[i]
    THEN [result |-> Some(FALSE), merged |-> None, spill |-> files]
    ELSE [result |-> Some(TRUE), merged |-> Some(Concat(files, 0)),
          spill |-> [i \in Seg |-> None]]

\* download, client.py:83-102: the segments, the shared lists, the threads started
DownloadPrepare ==
    /\ dpc = "call"
    /\ sizes' = SizesOf(fileSize)
    /\ offsets' = OffsetsOf(SizesOf(fileSize))
    /\ errors' = [i \in Seg |-> FALSE]
    /\ totals' = [i \in Seg |-> 0]
    /\ mpc' = "run"
    /\ wpc' = [i \in Seg |-> "start"]
    /\ dpc' = "joining"
    /\ UNCHANGED <<fileSize, srvVars, obsVars, offset, total, finished, data, attempts,
                   checksum, recvData, gets, spill, merged, result, peer, faults, faulty,
                   cleanup, outVars, lockVars>>

\* The network loses, damages or delays cost datagrams of worker i, within
\* the bounds of the run.
Fault(i, cost) ==
    /\ faults + cost <= MaxFaults
    /\ cost > 0 => Cardinality(faulty \cup {i}) <= MaxFaulty
    /\ faults' = faults + cost
    /\ faulty' = IF cost > 0 THEN faulty \cup {i} ELSE faulty

\* The network drops cost datagrams of worker i, of at most one in the
\* whole download.
OneLoss(i, cost) ==
    /\ faults + cost <= 1
    /\ faults' = faults + cost
    /\ faulty' = IF cost > 0 THEN faulty \cup {i} ELSE faulty

\* net is "reliable" (every datagram is delivered once, unchanged and in
\* time), "faulty" (replies are lost, damaged or delayed, within MaxFaults
\* and MaxFaulty) or "lossy" (one datagram of the download may be dropped).
Budget(i, net, cost) == IF net = "lossy" THEN OneLoss(i, cost) ELSE Fault(i, cost)

\* _download, client.py:155-161: the socket, DOWN, the spill file opened.
\* lost: the network drops the DOWN.
WorkerStartOn(i, lost) ==
    /\ wpc[i] = "start"
    /\ Serve(IF lost THEN <<>> ELSE <<DownMsg(FilePath)>>, i)
    /\ offset' = [offset EXCEPT ![i] = offsets[i]]
    /\ total' = [total EXCEPT ![i] = 0]
    /\ finished' = [finished EXCEPT ![i] = FALSE]
    /\ spill' = [spill EXCEPT ![i] = Some(<<>>)]
    /\ wpc' = [wpc EXCEPT ![i] = "loop"]
    /\ UNCHANGED <<fileSize, obsVars, dlVars, sharedVars, mpc, data, attempts, checksum,
                   recvData, gets, peer, cleanup, outVars, lockVars>>

WorkerStart(i) == WorkerStartOn(i, FALSE) /\ UNCHANGED <<faults, faulty>>

\* The datagram that carries contents to the client
OnWire(contents) == IF peer = "framed" THEN Framed(contents) ELSE contents

\* What recvfrom (client.py:193) can return to worker i after its GET, with
\* the number of datagrams the network lost, damaged or delayed for it:
\* the reply, if the server sent one; a timeout (None), which is the
\* network's doing (the GET or the reply lost) unless the server sent
\* nothing; the reply with one bit of its last byte changed; the reply to the worker's
\* previous GET, arriving late.
Arrivals(i, reply, net) ==
    LET wire == OnWire(reply[1].data)
        late == OnWire(Contents(FileOf(fileSize), offset[i] - CHUNK_SIZE, CHUNK_SIZE))
    IN  (IF reply # None THEN {[rcv |-> Some(wire), cost |-> 0]} ELSE {})
        \cup (IF net = "reliable" /\ reply # None THEN {}
              ELSE {[rcv |-> None, cost |-> IF reply = None THEN 0 ELSE 1]})
        \cup (IF net # "faulty" \/ reply = None \/ wire = <<>> THEN {}
              ELSE {[rcv |-> Some(CorruptAt(wire, Len(wire))), cost |-> 1]})
        \cup (IF net # "faulty" \/ total[i] = 0 THEN {}
              ELSE {[rcv |-> Some(late), cost |-> 1]})

\* list[index] = value, client.py:168 and 176
SetItem(list, index, value) == [list EXCEPT ![index] = value]

\* The datagrams out less the k-th, all of them if k = 0
Without(out, k) ==
    IF k = 0 THEN out
    ELSE [j \in 1..(Len(out) - 1) |-> IF j < k THEN out[j] ELSE out[j + 1]]

\* client.py:182-184
Cleanup == {"chunk_file.close", "QUIT", "sock.close"}

\* One turn of the loop of _try_recv (client.py:190-202), entered from
\* _download (client.py:164-165) if this is the first: the GET is sent,
\* recvfrom returns or times out, the packet is unpacked and verified; when
\* _try_recv returns, _download goes on to its next call of _try_recv or to
\* its return (client.py:166-185).
WorkerTurnOn(i, net) ==
    /\ wpc[i] \in {"loop", "try"}
    /\ LET first == wpc[i] = "loop"
           chunk_size == ChunkSize(sizes[i], total[i])
           get == GetMsg(offset[i], chunk_size)
           g == RunLoop(ServerState, srvLoop, <<get>>, i, FileOf(fileSize))
       IN  \E a \in Arrivals(i, g.reply, net) :
             LET t == TryRecvTurn(IF first THEN ATTEMPTS ELSE attempts[i],
                                  checksum[i],
                                  IF first THEN None ELSE recvData[i],
                                  chunk_size, a.rcv)
                 d == AfterTryRecv(t.data, offset[i], total[i], sizes[i], spill[i])
                 out == (IF t.pc = "ret" /\ d.acked THEN <<AckMsg(offset[i])>> ELSE <<>>)
                        \o (IF t.pc = "ret" /\ d.pc = "ended" THEN <<QuitMsg>> ELSE <<>>)
             IN  \E k \in (IF net = "lossy" THEN 0..Len(out) ELSE {0}) :
                 /\ Budget(i, net, a.cost + (IF k > 0 THEN 1 ELSE 0))
                 /\ Serve(<<get>> \o Without(out, k), i)
                 /\ gets' = [gets EXCEPT ![i] = (IF first THEN 0 ELSE @) + 1]
                 /\ attempts' = [attempts EXCEPT ![i] = t.attempts]
                 /\ checksum' = [checksum EXCEPT ![i] = t.checksum]
                 /\ recvData' = [recvData EXCEPT ![i] = t.data]
                 /\ IF t.pc = "ret"
                      THEN /\ data' = [data EXCEPT ![i] = t.data]
                           /\ errors' = IF d.failed THEN SetItem(errors, i, TRUE) ELSE errors
                           /\ spill' = [spill EXCEPT ![i] = d.spill]
                           /\ total' = [total EXCEPT ![i] = d.total]
                           /\ totals' = IF d.failed THEN totals ELSE SetItem(totals, i, d.total)
                           /\ finished' = [finished EXCEPT ![i] = d.finished]
                           /\ offset' = [offset EXCEPT ![i] = d.offset]
                           /\ wpc' = [wpc EXCEPT ![i] = d.pc]
                           /\ cleanup' = IF d.pc = "ended" THEN [cleanup EXCEPT ![i] = Cleanup]
                                         ELSE cleanup
                      ELSE /\ wpc' = [wpc EXCEPT ![i] = t.pc]
                           /\ UNCHANGED <<data, errors, spill, total, totals, finished, offset,
                                          cleanup>>
    /\ UNCHANGED <<fileSize, obsVars, dlVars, mpc, peer, outVars>>

\* One turn of the loop of _update_progress, client.py:131-148
MonitorPoll ==
    /\ mpc = "run"
    /\ mpc' = MonitorTurn(errors, totals, sizes)
    /\ UNCHANGED <<fileSize, srvVars, obsVars, dlVars, sharedVars, workerVars, peer, faults,
                   faulty, cleanup, outVars, lockVars>>

ThreadsEnded ==
    /\ mpc \in {"done", "dead"}
    /\ \A i \in Seg : wpc[i] \in {"ended", "dead"}

\* os.path.basename: what follows the last "/"
RECURSIVE Basename(_)
Basename(path) ==
    IF \E k \in 1..Len(path) : path[k] = "/"
    THEN Basename(SubSeq(path, (CHOOSE k \in 1..Len(path) : path[k] = "/") + 1, Len(path)))
    ELSE path

\* os.path.splitext: the extension starts at the last ".", unless only
\* dots come before it
SplitExt(filename) ==
    LET dots == {k \in 1..Len(filename) : filename[k] = "."}
        last == CHOOSE k \in dots : \A j \in dots : j <= k
    IN  IF dots # {} /\ \E j \in 1..(last - 1) : filename[j] # "."
        THEN <<SubSeq(filename, 1, last - 1), SubSeq(filename, last, Len(filename))>>
        ELSE <<filename, <<>>>>

\* f"{name} ({count}){ext}", client.py:117
Numbered(name, count, ext) == name \o <<" ", "(">> \o IntToStr(count) \o <<")">> \o ext

\* f"part_{i}", client.py:90
PartName(i) == <<"part_">> \o IntToStr(i)

\* The names os.path.exists finds in client_data: the files and the spill files
Taken(files, spills) == DOMAIN files \cup {PartName(i) : i \in {j \in Seg : spills[j] # None}}

\* NewFileName without the loop: the name asked for, taken or not
NewFileNameAsAsked(taken, filename, name, ext, count) == filename

\* The loop of client.py:113-118: filename if it is free, else the first of
\* name (count), name (count + 1), ... that is
RECURSIVE NewFileName(_, _, _, _, _)
NewFileName(taken, filename, name, ext, count) ==
    IF filename \notin taken THEN filename
    ELSE NewFileName(taken, Numbered(name, count, ext), name, ext, count + 1)

\* client.py:111-118: new_name or the base name of filepath, numbered if taken
NewFilePath(taken, requested, filepath) ==
    LET filename == IF requested # None /\ requested[1] # <<>> THEN requested[1]
                    ELSE Basename(filepath)
        parts == SplitExt(filename)
    IN  NewFileName(taken, filename, parts[1], parts[2], 1)

\* open(path, "wb") and the writes: the file is created or replaced
Written(files, path, bytes) ==
    [n \in DOMAIN files \cup {path} |-> IF n = path THEN bytes ELSE files[n]]

\* download, client.py:104-126: every thread joined, then the failure
\* report, or the output named and the merge
DownloadJoin ==
    /\ dpc = "joining"
    /\ ThreadsEnded
    /\ LET j == AfterJoin(errors, spill)
           new_filepath == NewFilePath(Taken(dir, spill), new_name, FilePath)
       IN  /\ result' = j.result
           /\ merged' = j.merged
           /\ spill' = j.spill
           /\ IF j.result = Some(TRUE)
                THEN /\ dir' = Written(dir, new_filepath, j.merged[1])
                     /\ made' = Append(made, new_filepath)
                ELSE UNCHANGED <<dir, made>>
    /\ dpc' = "returned"
    /\ UNCHANGED <<fileSize, srvVars, obsVars, sizes, offsets, sharedVars, mpc, wpc, offset,
                   total, finished, data, attempts, checksum, recvData, gets, peer, faults,
                   faulty, cleanup, new_name, lockVars>>

WorkerTurn(i) == WorkerTurnOn(i, "faulty") /\ UNCHANGED lockVars

\* ------------------------------------------------------- specifications
ClientIdle ==
    /\ dpc = "call"
    /\ sizes = [i \in Seg |-> 0]
    /\ offsets = [i \in Seg |-> 0]
    /\ errors = [i \in Seg |-> FALSE]
    /\ totals = [i \in Seg |-> 0]
    /\ mpc = "idle"
    /\ wpc = [i \in Seg |-> "idle"]
    /\ offset = [i \in Seg |-> 0]
    /\ total = [i \in Seg |-> 0]
    /\ finished = [i \in Seg |-> FALSE]
    /\ data = [i \in Seg |-> None]
    /\ attempts = [i \in Seg |-> ATTEMPTS]
    /\ checksum = [i \in Seg |-> None]
    /\ recvData = [i \in Seg |-> None]
    /\ gets = [i \in Seg |-> 0]
    /\ spill = [i \in Seg |-> None]
    /\ merged = None
    /\ result = None
    /\ faults = 0
    /\ faulty = {}
    /\ cleanup = [i \in Seg |-> {}]
    /\ made = <<>>
    /\ lock = None
    /\ progresses = [i \in Seg |-> 0]
    /\ unguarded = {}

\* A download of a file of the catalog from a running server, over a network
\* that loses, damages and delays datagrams.
Init ==
    /\ fileSize \in 0..MaxFileSize
    /\ srvLoop = "running"
    /\ srvRun = TRUE
    /\ clients = <<>>
    /\ openFiles = {}
    /\ lastMsg = None
    /\ lastReply = None
    /\ peer \in {"bare", "framed"}
    /\ peer = "framed" => fileSize >= NSEG
    /\ dir = <<>>
    /\ new_name = None
    /\ ClientIdle

Next ==
    \/ DownloadPrepare
    \/ \E i \in Seg : WorkerStart(i)
    \/ \E i \in Seg : WorkerTurn(i)
    \/ MonitorPoll
    \/ DownloadJoin

Spec == Init /\ [][Next]_vars

\* The same download from server.py over a network that delivers every
\* datagram once, unchanged and in time.
ReliableTurn(i) == WorkerTurnOn(i, "reliable") /\ UNCHANGED lockVars

InitReliable ==
    /\ fileSize \in 0..MaxFileSize
    /\ srvLoop = "running"
    /\ srvRun = TRUE
    /\ clients = <<>>
    /\ openFiles = {}
    /\ lastMsg = None
    /\ lastReply = None
    /\ peer = "bare"
    /\ dir = <<>>
    /\ new_name = None
    /\ ClientIdle

NextReliable ==
    \/ DownloadPrepare
    \/ \E i \in Seg : WorkerStart(i)
    \/ \E i \in Seg : ReliableTurn(i)
    \/ MonitorPoll
    \/ DownloadJoin

SpecReliable == InitReliable /\ [][NextReliable]_vars

\* The server alone, fed datagrams of every kind from two addresses.
InitServer ==
    /\ fileSize \in 0..MaxFileSize
    /\ srvLoop = "init"
    /\ srvRun = FALSE
    /\ clients = <<>>
    /\ openFiles = {}
    /\ lastMsg = None
    /\ lastReply = None
    /\ peer = "bare"
    /\ dir = <<>>
    /\ new_name = None
    /\ ClientIdle

NextServer ==
    \/ ServerRun
    \/ ServerRecv

SpecServer == InitServer /\ [][NextServer]_vars

\* The client is run again and asks for the same file (client.py:249-251,
\* 237): client_data is as the download before left it, the server goes on.
DownloadAgain ==
    /\ dpc = "returned"
    /\ Len(made) < MaxDownloads
    /\ dpc' = "call"
    /\ sizes' = [i \in Seg |-> 0]
    /\ offsets' = [i \in Seg |-> 0]
    /\ errors' = [i \in Seg |-> FALSE]
    /\ totals' = [i \in Seg |-> 0]
    /\ mpc' = "idle"
    /\ wpc' = [i \in Seg |-> "idle"]
    /\ offset' = [i \in Seg |-> 0]
    /\ total' = [i \in Seg |-> 0]
    /\ finished' = [i \in Seg |-> FALSE]
    /\ data' = [i \in Seg |-> None]
    /\ attempts' = [i \in Seg |-> ATTEMPTS]
    /\ checksum' = [i \in Seg |-> None]
    /\ recvData' = [i \in Seg |-> None]
    /\ gets' = [i \in Seg |-> 0]
    /\ cleanup' = [i \in Seg |-> {}]
    /\ merged' = None
    /\ result' = None
    /\ UNCHANGED <<fileSize, srvVars, obsVars, spill, peer, faults, faulty, outVars, lockVars>>

\* What client_data holds before the first download, and the names asked for
TestDirs ==
    {[n \in names |-> <<0>>] :
        names \in {{},
                   {<<"a", ".", "bin">>},
                   {<<"a", ".", "bin">>, <<"a", " ", "(", "2", ")", ".", "bin">>},
                   {<<"a">>, <<"a", " ", "(", "1", ")">>}}}

TestNames == {None, Some(<<"a">>), Some(<<"part_", "0">>)}

\* Downloads of the same file, one after the other, from a server that
\* frames its replies, over a network that delivers every datagram.
InitNaming ==
    /\ fileSize \in NSEG..MaxFileSize
    /\ srvLoop = "running"
    /\ srvRun = TRUE
    /\ clients = <<>>
    /\ openFiles = {}
    /\ lastMsg = None
    /\ lastReply = None
    /\ peer = "framed"
    /\ dir \in TestDirs
    /\ new_name \in TestNames
    /\ ClientIdle

NextNaming ==
    \/ DownloadPrepare
    \/ \E i \in Seg : WorkerStart(i)
    \/ \E i \in Seg : ReliableTurn(i)
    \/ MonitorPoll
    \/ DownloadJoin
    \/ DownloadAgain

SpecNaming == InitNaming /\ [][NextNaming]_vars

\* A download from a server that frames its replies, over a network that
\* drops at most one datagram (a DOWN, a GET or its reply, an ACK or a QUIT)
\* and delivers the others in time.
LossyStart(i) ==
    \E lost \in BOOLEAN :
        /\ WorkerStartOn(i, lost)
        /\ OneLoss(i, IF lost THEN 1 ELSE 0)

LossyTurn(i) == WorkerTurnOn(i, "lossy") /\ UNCHANGED lockVars

InitOneLoss ==
    /\ fileSize \in NSEG..MaxFileSize
    /\ srvLoop = "running"
    /\ srvRun = TRUE
    /\ clients = <<>>
    /\ openFiles = {}
    /\ lastMsg = None
    /\ lastReply = None
    /\ peer = "framed"
    /\ dir = <<>>
    /\ new_name = None
    /\ ClientIdle

NextOneLoss ==
    \/ DownloadPrepare
    \/ \E i \in Seg : LossyStart(i)
    \/ \E i \in Seg : LossyTurn(i)
    \/ MonitorPoll
    \/ DownloadJoin

SpecOneLoss == InitOneLoss /\ [][NextOneLoss]_vars

\* The same threads with the lock of client.py:94 shown: the monitor's turn
\* in its steps, a worker's turn taken when it can have the lock.
\* An access to the shared lists by a thread that does not hold the lock
\* is noted.
Noted(log, access, holder) == IF holder = Some(access.by) THEN log ELSE log \cup {access}

\* _update_progress, client.py:132: with lock
MonitorEnter ==
    /\ mpc = "run"
    /\ lock = None
    /\ lock' = Some("monitor")
    /\ mpc' = "locked"
    /\ UNCHANGED <<fileSize, srvVars, obsVars, dlVars, sharedVars, workerVars, peer, faults,
                   faulty, cleanup, outVars, progresses, unguarded>>

\* _update_progress, client.py:133-136, to the end of the with block: errors
\* and totals are read; the break and the ZeroDivisionError leave the block
\* too, so the lock is released
MonitorRead ==
    /\ mpc = "locked"
    /\ unguarded' = Noted(Noted(unguarded, [by |-> "monitor", list |-> "errors", line |-> 133], lock),
                          [by |-> "monitor", list |-> "totals", line |-> 136], lock)
    /\ IF \E i \in Seg : errors[i]
         THEN mpc' = "done" /\ UNCHANGED progresses
       ELSE IF \E i \in Seg : sizes[i] = 0
         THEN mpc' = "dead" /\ UNCHANGED progresses
       ELSE /\ progresses' = [i \in Seg |-> Progress(totals[i], sizes[i])]
            /\ mpc' = "show"
    /\ lock' = None
    /\ UNCHANGED <<fileSize, srvVars, obsVars, dlVars, sharedVars, workerVars, peer, faults,
                   faulty, cleanup, outVars>>

\* _update_progress, client.py:138-148: the bar, sum(totals), the test of
\* progresses
MonitorShow ==
    /\ mpc = "show"
    /\ unguarded' = Noted(unguarded, [by |-> "monitor", list |-> "totals", line |-> 142], lock)
    /\ mpc' = IF \A i \in Seg : progresses[i] = 100 THEN "done" ELSE "run"
    /\ UNCHANGED <<fileSize, srvVars, obsVars, dlVars, sharedVars, workerVars, peer, faults,
                   faulty, cleanup, outVars, lock, progresses>>

\* A worker's turn: what it writes to errors or totals it writes in a with
\* lock block (client.py:167-168, 175-176), which it enters when the lock is free
LockedTurn(i) ==
    /\ lock = None
    /\ WorkerTurnOn(i, "reliable")
    /\ unguarded' = Noted(Noted(unguarded, [by |-> i, list |-> "errors", line |-> 168], Some(i)),
                          [by |-> i, list |-> "totals", line |-> 176], Some(i))
    /\ UNCHANGED <<lock, progresses>>

InitLock ==
    /\ fileSize \in 0..MaxFileSize
    /\ srvLoop = "running"
    /\ srvRun = TRUE
    /\ clients = <<>>
    /\ openFiles = {}
    /\ lastMsg = None
    /\ lastReply = None
    /\ peer \in {"bare", "framed"}
    /\ peer = "framed" => fileSize >= NSEG
    /\ dir = <<>>
    /\ new_name = None
    /\ ClientIdle

NextLock ==
    \/ DownloadPrepare
    \/ \E i \in Seg : WorkerStart(i)
    \/ \E i \in Seg : LockedTurn(i)
    \/ MonitorEnter
    \/ MonitorRead
    \/ MonitorShow
    \/ DownloadJoin

SpecLock == InitLock /\ [][NextLock]_vars

\* ---------------------------------------------------------------- claims
WorkersEnded == \A i \in Seg : wpc[i] \in {"ended", "dead"}

\* C1: whenever download returns True, the merged output file is byte for
\* byte the server's file.
C1_RoundTrip ==
    (dpc = "returned" /\ result = Some(TRUE)) => merged = Some(FileOf(fileSize))

\* C2: download writes the merged file and returns True only if every
\* worker has transferred the full length of its segment.
C2_MergeOnlyIfComplete ==
    (dpc = "returned" /\ (result = Some(TRUE) \/ merged # None))
        => \A i \in Seg : total[i] = sizes[i]

\* C3: on a network that delivers everything, a download of a file of at
\* least one byte ends with every worker done and none failed, and returns
\* True with the merged file equal to the source.
C3_ReliableDownloadSucceeds ==
    fileSize >= 1 =>
        /\ WorkersEnded => \A i \in Seg : wpc[i] = "ended" /\ finished[i] /\ ~errors[i]
        /\ dpc = "returned" => result = Some(TRUE) /\ merged = Some(FileOf(fileSize))

\* C4: what _try_recv returns to _download, unless None, is a payload whose
\* checksum equalled its MD5 digest.
C4_ReturnsOnlyVerified ==
    \A i \in Seg :
        (wpc[i] \in {"loop", "ended"} /\ data[i] # None)
            => checksum[i] = Some(Md5Hex(data[i][1]))

\* C5: a call of _try_recv that gets no valid reply in any attempt has sent
\* the GET exactly ATTEMPTS times, and the worker then marks its segment
\* failed and stops; a segment is marked failed only so; no call sends more
\* than ATTEMPTS GETs.
C5_RetryBudget ==
    \A i \in Seg :
        /\ gets[i] <= ATTEMPTS
        /\ (wpc[i] \in {"loop", "ended"} /\ attempts[i] = 0)
              => gets[i] = ATTEMPTS /\ errors[i] /\ wpc[i] = "ended" /\ ~finished[i]
        /\ errors[i] => gets[i] = ATTEMPTS /\ attempts[i] = 0

\* C6: if a failed flag is set once every thread is joined, download returns
\* False, writes no merged file and leaves every spill file as its worker
\* left it.
C6_PartialFailure ==
    (dpc = "returned" /\ \E i \in Seg : errors[i])
        => /\ result = Some(FALSE)
           /\ merged = None
           /\ \A i \in Seg : spill[i] # None /\ Len(spill[i][1]) = total[i]

C6_Witness ==
    /\ dpc = "returned"
    /\ \E i \in Seg : errors[i]
    /\ \E j \in Seg : finished[j] /\ spill[j] # None /\ Len(spill[j][1]) > 0

IsTerm(m, ok) ==
    /\ m # None
    /\ Len(Split(m[1].msg)) = 2
    /\ Split(m[1].msg)[1] = <<"TERM">>
    /\ (Split(m[1].msg)[2] = PASSWORD) = ok

\* C7: the receive loop stops only on TERM with the correct password.
C7_StopsOnlyOnTerm ==
    srvLoop \in {"exited", "crashed"} => IsTerm(lastMsg, TRUE)

\* A step that handles TERM with a wrong password leaves the run flag,
\* the loop and the session registry as they were and sends nothing, and a
\* LIST handled next is answered with the catalog.
C8_WrongTermStep ==
    IsTerm(lastMsg', FALSE) =>
        /\ srvRun' = srvRun
        /\ srvLoop' = srvLoop
        /\ clients' = clients
        /\ openFiles' = openFiles
        /\ lastReply' = None
        /\ srvLoop' = "running"
        /\ \A a \in TestAddrs :
             LET r == handle_client([run |-> srvRun', clients |-> clients', open |-> openFiles'],
                                    <<"LIST">>, a, FileOf(fileSize))
             IN  /\ r.reply = Some([to |-> a, data |-> Catalog(fileSize)])
                 /\ LoopAfter(r) = "running"

\* C8: every step that handles TERM with a wrong password changes nothing,
\* sends nothing and leaves the server answering LIST.
C8_WrongTermChangesNothing == [][C8_WrongTermStep]_vars

C8_Witness ==
    /\ IsTerm(lastMsg, FALSE)
    /\ srvLoop = "running"
    /\ clients # <<>>

\* C9: once every worker thread has ended, the progress monitor leaves its
\* loop at its next turn (nothing it reads changes any more, so otherwise it
\* never does).
C9_MonitorTerminates ==
    (WorkersEnded /\ mpc = "run") => MonitorTurn(errors, totals, sizes) # "run"

SegRange(i) == {b \in 0..(fileSize - 1) : offsets[i] <= b /\ b < offsets[i] + sizes[i]}

\* C10: the segments are contiguous, pairwise disjoint and cover [0, S):
\* offset[0] = 0, offset[i+1] = offset[i] + size[i], the sizes add up to S,
\* the first three are S div 4 and the last takes the remainder.
C10_SegmentsPartition ==
    dpc # "call" =>
        /\ offsets[0] = 0
        /\ \A i \in 0..(NSEG - 2) : offsets[i + 1] = offsets[i] + sizes[i]
        /\ SumSeq([k \in 1..NSEG |-> sizes[k - 1]]) = fileSize
        /\ \A i \in 0..(NSEG - 2) : sizes[i] = fileSize \div NSEG
        /\ sizes[NSEG - 1] = (fileSize \div NSEG) + (fileSize % NSEG)
        /\ UNION {SegRange(i) : i \in Seg} = 0..(fileSize - 1)
        /\ \A i, j \in Seg : i # j => SegRange(i) \cap SegRange(j) = {}
        /\ \A i \in Seg : Cardinality(SegRange(i)) = sizes[i]

C10_Witness ==
    /\ dpc # "call"
    /\ fileSize >= NSEG
    /\ fileSize % NSEG # 0

IsCmd(m, cmd, n) ==
    /\ m # None
    /\ Len(Split(m[1].msg)) = n
    /\ Split(m[1].msg)[1] = <<cmd>>

\* C11: what the server sends for a GET is the frame the client unpacks and
\* verifies: the MD5 hex digest of the payload, then the payload, of the
\* requested length; _try_recv, given it undamaged, returns the payload.
C11_ReplyIsVerifiedFrame ==
    (IsCmd(lastMsg, "GET", 3) /\ lastReply # None) =>
        LET parts == Split(lastMsg[1].msg)
            off == ParseInt(parts[2])
            chunk_size == ParseInt(parts[3])
            contents == Contents(FileOf(fileSize), off, chunk_size)
            t == TryRecvTurn(ATTEMPTS, None, None, chunk_size, Some(lastReply[1].data))
        IN  /\ lastReply[1].data = Framed(contents)
            /\ (chunk_size > 0 /\ off + chunk_size <= fileSize)
                  => t.pc = "ret" /\ t.data = Some(contents) /\ t.attempts = ATTEMPTS

\* C12: every file handle the server has open is the handle of exactly one
\* session of the registry.
C12_NoHandleLeak ==
    /\ openFiles = {clients[a].fd : a \in DOMAIN clients}
    /\ \A a, b \in DOMAIN clients : clients[a].fd = clients[b].fd => a = b

\* C13: a worker thread that has ended, by return or by exception, has
\* closed its spill file, sent QUIT and closed its socket.
C13_CleanupOnEveryExit ==
    \A i \in Seg : wpc[i] \in {"ended", "dead"} => cleanup[i] = Cleanup

\* The name asked for, split as download splits it
AskedName == IF new_name # None THEN new_name[1] ELSE <<"a", ".", "bin">>
AskedNumbered(k) == Numbered(SplitExt(AskedName)[1], k, SplitExt(AskedName)[2])
AskedFamily == {AskedName} \cup {AskedNumbered(k) : k \in 1..(MaxDownloads + 1)}

\* The names of AskedFamily that client_data held before the first download
\* (the spill files are there whenever download names its output)
FamilyBefore ==
    AskedFamily \cap ((DOMAIN dir \ {made[k] : k \in 1..Len(made)})
                      \cup {PartName(i) : i \in Seg})

\* A step in which download names and writes its output: the path did not
\* exist; it is the name asked for if that was free, else name (k)ext for
\* the smallest free k >= 1; every file of before is as it was; and it is
\* name (N-1)ext at the N-th download, N >= 2, into a directory that held
\* no file of these names at first.
C14_NamingStep ==
    (dpc = "joining" /\ dpc' = "returned" /\ result' = Some(TRUE)) =>
        LET path == made'[Len(made')]
            taken == Taken(dir, spill)
        IN  /\ Len(made') = Len(made) + 1
            /\ path \notin taken
            /\ AskedName \notin taken => path = AskedName
            /\ AskedName \in taken =>
                 \E k \in 1..(Cardinality(taken) + 1) :
                    /\ path = AskedNumbered(k)
                    /\ \A j \in 1..(k - 1) : AskedNumbered(j) \in taken
            /\ \A n \in DOMAIN dir : n \in DOMAIN dir' /\ dir'[n] = dir[n]
            /\ dir'[path] = FileOf(fileSize)
            /\ FamilyBefore = {} =>
                 path = IF Len(made') = 1 THEN AskedName ELSE AskedNumbered(Len(made') - 1)

\* C14: download never opens an existing path for its output; a taken name
\* becomes name (k)ext with the smallest free k >= 1, so the N-th of N
\* equal requests gets suffix (N-1), and earlier files are left untouched.
C14_NeverOverwrites == [][C14_NamingStep]_vars

C14_Witness ==
    /\ dpc = "returned"
    /\ new_name = None
    /\ Len(made) = MaxDownloads
    /\ made[Len(made)] = <<"a", " ", "(">> \o IntToStr(MaxDownloads - 1) \o <<")", ".", "bin">>
    /\ \A k \in 1..Len(made) : dir[made[k]] = FileOf(fileSize)

\* C15: when the network drops at most one datagram of a download, every
\* worker still ends with its segment complete and not failed, and download
\* returns True with the merged file equal to the source.
C15_OneLossRecovered ==
    /\ WorkersEnded => \A i \in Seg : wpc[i] = "ended" /\ finished[i] /\ ~errors[i]
    /\ dpc = "returned" => result = Some(TRUE) /\ merged = Some(FileOf(fileSize))

\* C16: a payload that passed verification and was appended by worker i as
\* the chunk of offset o is the server's reply to GET o: the bytes of the
\* file from o on.  (After the append total[i] counts it, so o is
\* offsets[i] + total[i] less its length.)
C16_ChunksInOrder ==
    \A i \in Seg :
        (wpc[i] \in {"loop", "ended"} /\ data[i] # None
            /\ checksum[i] = Some(Md5Hex(data[i][1])))
        => data[i][1] = SubSeq(FileOf(fileSize),
                               offsets[i] + total[i] - Len(data[i][1]) + 1,
                               offsets[i] + total[i])

\* C17: a worker whose segment has length 0 sends no GET: once started it
\* has sent none, and it ends finished, not failed, with an empty spill file.
C17_EmptySegmentSendsNoGet ==
    \A i \in Seg :
        (dpc # "call" /\ sizes[i] = 0 /\ wpc[i] \notin {"idle", "start"}) =>
            /\ gets[i] = 0
            /\ wpc[i] \in {"ended", "dead"} =>
                 wpc[i] = "ended" /\ finished[i] /\ ~errors[i] /\ spill[i] = Some(<<>>)

\* C18: while the threads run, no thread reads or writes totals or errors
\* without holding the lock, and the lock is held only in the monitor's
\* block that reads them (or inside a worker's write, within its turn), never
\* over a send, a receive or a write of a spill file.
C18_LockDiscipline ==
    /\ unguarded = {}
    /\ lock # None => lock = Some("monitor") /\ mpc = "locked"

\* What belongs to segment k changes in the step
Touched(k) ==
    \/ wpc'[k] # wpc[k]
    \/ spill'[k] # spill[k]
    \/ totals'[k] # totals[k]
    \/ errors'[k] # errors[k]
    \/ total'[k] # total[k]
    \/ offset'[k] # offset[k]
    \/ finished'[k] # finished[k]
    \/ data'[k] # data[k]
    \/ attempts'[k] # attempts[k]
    \/ gets'[k] # gets[k]
    \/ cleanup'[k] # cleanup[k]

\* A step of the running threads touches the spill file, the counter, the
\* flag and the thread of one segment at most; the step in which a worker
\* marks its segment failed leaves every other worker where it was; and
\* once a worker has marked its segment failed, another worker's thread
\* ends only with its segment complete or its own attempts used up.
C19_IsolatedStep ==
    (dpc = "joining" /\ dpc' = "joining") =>
        /\ \A i, j \in Seg : (i # j /\ Touched(i)) => ~Touched(j)
        /\ \A i \in Seg : (errors'[i] /\ ~errors[i]) =>
              \A j \in Seg \ {i} : wpc'[j] = wpc[j] /\ spill'[j] = spill[j]
        /\ \A i, j \in Seg :
              (i # j /\ errors[i] /\ wpc[j] \in {"loop", "try"}
                    /\ wpc'[j] \notin {"loop", "try"})
                => finished'[j] \/ attempts'[j] = 0

\* Whatever the failed flags are, a worker inside its loop can take its
\* turn: its GET has an outcome that the network's bounds allow.
C19_KeepsRunning ==
    \A j \in Seg :
        (dpc = "joining" /\ wpc[j] \in {"loop", "try"}) =>
            LET get == GetMsg(offset[j], ChunkSize(sizes[j], total[j]))
                g == RunLoop(ServerState, srvLoop, <<get>>, j, FileOf(fileSize))
            IN  \E a \in Arrivals(j, g.reply, "faulty") :
                    /\ faults + a.cost <= MaxFaults
                    /\ a.cost > 0 => Cardinality(faulty \cup {j}) <= MaxFaulty

\* C19: a worker's failure is isolated: the others keep running until they
\* complete or use up their own attempts, and no worker writes to a spill
\* file, counter or flag of another index.
C19_FailuresIsolated == []C19_KeepsRunning /\ [][C19_IsolatedStep]_vars

\* After a step, for every segment i: totals[i] is not less than before
\* and is between 0 and sizes[i]; if the step changed it, it is the number
\* of bytes in the spill file of i; and if errors[i] is set it is less than
\* sizes[i].
C20_TotalsStep ==
    \A i \in Seg :
        /\ totals'[i] >= totals[i]
        /\ 0 <= totals'[i] /\ totals'[i] <= sizes'[i]
        /\ totals'[i] # totals[i] => spill'[i] # None /\ totals'[i] = Len(spill'[i][1])
        /\ errors'[i] => totals'[i] < sizes'[i]

\* C20: the shared progress counter of a segment stays within 0..size, never
\* decreases, equals the bytes appended to the spill file when it is
\* updated, and a segment is never both complete and failed.
C20_TotalsInvariant == [][C20_TotalsStep]_vars

====
